---- MODULE Spec2Model ----
(***************************************************************************)
(* Attendance check-in engine of the SmileIn API: the attendance table,    *)
(* the check-in endpoint with face verification, direct check-in,          *)
(* administrative update and delete, modelled from app/crud/attendance.py, *)
(* app/routers/attendance.py and app/services/face_verification_service.py *)
(***************************************************************************)
EXTENDS Integers, Sequences, FiniteSets, TLC

(***************************************************************************)
(* Bounds of the model.                                                    *)
(***************************************************************************)
MaxRecords == 2        \* rows of the attendance table under SpecStore
MaxCheckInRecords == 1 \* rows of the attendance table under Spec and SpecRace
MaxDay == 1            \* calendar days the clock runs through
NumRequests == 2       \* check-in requests that can be in flight

(***************************************************************************)
(* Optional values: None is the empty tuple, Some(x) the one-tuple.        *)
(***************************************************************************)
None == <<>>
Some(x) == <<x>>
Val(o) == o[1]

(***************************************************************************)
(* Text.  A string that the code splits is a sequence of tokens in which   *)
(* the separator characters "_" and ":" are tokens of their own.           *)
(***************************************************************************)
RECURSIVE FirstPart(_, _)
FirstPart(s, sep) ==
  IF s = <<>> \/ Head(s) = sep THEN <<>>
  ELSE <<Head(s)>> \o FirstPart(Tail(s), sep)

\* str.split(sep): the sequence of the parts between the separators
RECURSIVE Split(_, _)
Split(s, sep) ==
  LET first == FirstPart(s, sep)
  IN  IF Len(first) = Len(s) THEN <<first>>
      ELSE <<first>> \o Split(SubSeq(s, Len(first) + 2, Len(s)), sep)

\* the string its tokens make up
RECURSIVE Join(_)
Join(tokens) ==
  IF tokens = <<>> THEN "" ELSE Head(tokens) \o Join(Tail(tokens))

\* int(part): the parts of a time string the model uses
IsIntText(part) == part \in {<<"06">>, <<"08">>, <<"00">>, <<"01">>}
IntOf(part) ==
  CASE part = <<"06">> -> 6
    [] part = <<"08">> -> 8
    [] part = <<"00">> -> 0
    [] part = <<"01">> -> 1

(***************************************************************************)
(* Time.  A datetime is a calendar date and a time of day <<h, m, s>>;     *)
(* datetimes compare lexicographically.  The clock of the model is the     *)
(* wall clock of the UTC+7 zone; the server's own zone differs from it by  *)
(* server_offset hours.                                                    *)
(***************************************************************************)
TimesOfDay == {<<6, 0, 0>>, <<8, 0, 1>>}
Dates == 1 .. MaxDay
Instants == [date : Dates, tod : TimesOfDay]
ServerOffsets == {-7}

TodLT(a, b) ==
  \/ a[1] < b[1]
  \/ a[1] = b[1] /\ a[2] < b[2]
  \/ a[1] = b[1] /\ a[2] = b[2] /\ a[3] < b[3]

DateTimeGT(a, b) ==
  \/ a.date > b.date
  \/ a.date = b.date /\ TodLT(b.tod, a.tod)

\* the wall clock of a zone off hours away from the model's clock
Shift(t, off) ==
  LET h == t.tod[1] + off
  IN  IF h < 0
      THEN [date |-> t.date - 1, tod |-> <<h + 24, t.tod[2], t.tod[3]>>]
      ELSE IF h >= 24
      THEN [date |-> t.date + 1, tod |-> <<h - 24, t.tod[2], t.tod[3]>>]
      ELSE [date |-> t.date, tod |-> <<h, t.tod[2], t.tod[3]>>]

(***************************************************************************)
(* Python values that travel in the payload fields: None, a dict (its      *)
(* items as a flat tuple of texts), a str (its tokens, braces, brackets    *)
(* and quotes being tokens of their own), an int, a bool, a list.          *)
(***************************************************************************)
PyNone == [t |-> "none", v |-> <<>>]
PyDict(items) == [t |-> "dict", v |-> items]
PyStr(text) == [t |-> "str", v |-> text]
PyInt(n) == [t |-> "int", v |-> n]
PyBool(b) == [t |-> "bool", v |-> b]
PyList(items) == [t |-> "list", v |-> items]

\* the test "value is not None" in the place of bool(value)
TruthyIsNotNone(x) == x.t # "none"

\* bool(value) as Python's "if value:" decides it
Truthy(x) ==
  CASE x.t = "none" -> FALSE
    [] x.t = "dict" -> x.v # <<>>
    [] x.t = "str" -> x.v # <<>>
    [] x.t = "int" -> x.v # 0
    [] x.t = "bool" -> x.v
    [] x.t = "list" -> x.v # <<>>

\* str(value) of a value that is no str
str_of(data) ==
  CASE data.t = "int" -> <<ToString(data.v)>>
    [] data.t = "bool" -> IF data.v THEN <<"True">> ELSE <<"False">>
    [] data.t = "list" -> <<"[">> \o data.v \o <<"]">>
    [] data.t = "none" -> <<"None">>
    [] data.t = "dict" -> <<"{">> \o data.v \o <<"}">>

\* json.dumps of a dict, and json.loads: the texts it accepts are null,
\* true, false, a number, a string in quotes, an array in brackets and an
\* object in braces; on anything else it raises JSONDecodeError
JsonDumps(d) == <<"{">> \o d.v \o <<"}">>
JsonNumbers == {0, 1, 2, 5, 12345}
IsJsonNumber(text) == \E n \in JsonNumbers : text = <<ToString(n)>>
Enclosed(text, open, close) ==
  Len(text) >= 2 /\ text[1] = open /\ text[Len(text)] = close
IsJson(text) ==
  \/ text \in {<<"null">>, <<"true">>, <<"false">>}
  \/ IsJsonNumber(text)
  \/ Enclosed(text, "\"", "\"")
  \/ Enclosed(text, "[", "]")
  \/ Enclosed(text, "{", "}")
JsonLoads(text) ==
  IF text = <<"null">> THEN PyNone
  ELSE IF text = <<"true">> THEN PyBool(TRUE)
  ELSE IF text = <<"false">> THEN PyBool(FALSE)
  ELSE IF IsJsonNumber(text)
  THEN PyInt(CHOOSE n \in JsonNumbers : text = <<ToString(n)>>)
  ELSE IF text[1] = "\"" THEN PyStr(SubSeq(text, 2, Len(text) - 1))
  ELSE IF text[1] = "[" THEN PyList(SubSeq(text, 2, Len(text) - 1))
  ELSE PyDict(SubSeq(text, 2, Len(text) - 1))

\* process_json_field returning a text that is no JSON as it is
process_json_field_raw(data) ==
  IF data.t = "none" THEN PyNone
  ELSE IF data.t = "dict" THEN data
  ELSE IF data.t \in {"int", "bool"} THEN PyDict(<<"data">> \o str_of(data))
  ELSE IF data.t = "str"
       THEN IF IsJson(data.v) THEN JsonLoads(data.v) ELSE data
  ELSE PyDict(<<"data">> \o str_of(data))

process_json_field(data) ==
  IF data.t = "none" THEN PyNone
  ELSE IF data.t = "dict" THEN data
  ELSE IF data.t \in {"int", "bool"} THEN PyDict(<<"data">> \o str_of(data))
  ELSE IF data.t = "str"
       THEN IF IsJson(data.v) THEN JsonLoads(data.v)
            ELSE PyDict(<<"data">> \o data.v)
  ELSE PyDict(<<"data">> \o str_of(data))

\* AttendanceCheckIn.parse_json_string, the validator of both payload fields
parse_json_string(value) ==
  IF value.t = "none" THEN PyNone
  ELSE IF value.t \in {"int", "bool"} THEN PyDict(<<"data">> \o str_of(value))
  ELSE IF value.t = "str"
       THEN IF IsJson(value.v) THEN JsonLoads(value.v)
            ELSE PyDict(<<"data">> \o value.v)
  ELSE value

\* whether a value the validator returns passes the field's type,
\* Optional[Union[Dict[str, Any], str]]
is_dict_or_str(value) == value.t \in {"none", "dict", "str"}

(***************************************************************************)
(* Biometric verifier.                                                     *)
(***************************************************************************)
class_labels ==
  { <<"11322005", "_", "Maria Sibarani">>,
    <<"11322007", "_", "Putri">>,
    <<"11322031", "_", "Daniel Manalu">> }

\* confidences are held in hundredths: 50 is 0.5
Confidences == {42, 50}
DefaultConfidenceThreshold == 50

extract_nim(prediction) ==
  IF prediction # <<>> THEN Some(Split(prediction, "_")[1]) ELSE None

\* what the detection and classification pipeline makes of an image
PipelineOutcomes ==
  { [kind |-> k, label |-> <<>>, confidence |-> 0] :
      k \in {"undecodable", "no_face", "error"} }
  \cup
  { [kind |-> "prediction", label |-> l, confidence |-> c] :
      l \in class_labels, c \in Confidences }

\* a failure result that keeps verified set
FailedResultVerified(msg) ==
  [verified |-> TRUE, message |-> msg, confidence |-> 0,
   predicted_nim |-> None, predicted_name |-> <<>>,
   nim_match |-> FALSE, confidence_ok |-> FALSE]

FailedResult(msg) ==
  [verified |-> FALSE, message |-> msg, confidence |-> 0,
   predicted_nim |-> None, predicted_name |-> <<>>,
   nim_match |-> FALSE, confidence_ok |-> FALSE]

\* f"{confidence:.4f}" of a confidence held in hundredths
Format4f(confidence) ==
  IF confidence >= 100 THEN "1.0000"
  ELSE IF confidence < 10 THEN "0.0" \o ToString(confidence) \o "00"
  ELSE "0." \o ToString(confidence) \o "00"

\* the comparison with > in the place of >=
confidence_ok_strict(confidence, confidence_threshold) ==
  confidence > confidence_threshold

confidence_ok(confidence, confidence_threshold) ==
  confidence >= confidence_threshold

verify_face(outcome, nim, confidence_threshold) ==
  IF outcome.kind = "undecodable" THEN FailedResult("Invalid image data format")
  ELSE IF outcome.kind = "no_face" THEN FailedResult("No face detected in the image")
  ELSE IF outcome.kind = "error" THEN FailedResult("Error during face verification")
  ELSE
    LET predicted_nim == extract_nim(outcome.label)
        nim_match == predicted_nim # None /\ Val(predicted_nim) # <<>>
                     /\ Val(predicted_nim) = nim
        conf_ok == confidence_ok(outcome.confidence, confidence_threshold)
        verified == nim_match /\ conf_ok
        wrong_person == "Face verification failed: Wrong person (predicted: "
                          \o Join(outcome.label) \o ")"
        message ==
          IF ~nim_match /\ ~conf_ok
          THEN wrong_person \o " and low confidence ("
               \o Format4f(outcome.confidence) \o ")"
          ELSE IF ~nim_match THEN wrong_person
          ELSE IF ~conf_ok
          THEN "Face verification failed: Low confidence ("
               \o Format4f(outcome.confidence) \o ")"
          ELSE "Face verified successfully"
    IN  [verified |-> verified, message |-> message,
         confidence |-> outcome.confidence,
         predicted_nim |-> predicted_nim, predicted_name |-> outcome.label,
         nim_match |-> nim_match, confidence_ok |-> conf_ok]

(***************************************************************************)
(* Tables the attendance code reads: students, users, schedules.           *)
(***************************************************************************)
Students == {1, 2}

\* Student.nim
NimOf(student_id) ==
  CASE student_id = 1 -> <<"11322005">>
    [] student_id = 2 -> <<"11322007">>

\* the authenticated users: Student, Instructor and Admin rows
Users ==
  { [type |-> "student", id |-> s] : s \in Students }
  \cup { [type |-> "instructor", id |-> 1], [type |-> "admin", id |-> 1] }

ScheduleIds == {1, 2}
StartTime == <<"08", ":", "00">>

\* the rows of the instructor_course table, in primary-key order
instructor_course == <<[instructor_id |-> 1, course_id |-> 1]>>

VARIABLES
  attendance,     \* the rows of the attendance table
  schedule,       \* schedule_id -> the Schedule row, None when there is none
  uploads,        \* the files under uploads/attendance_images
  clock,          \* the wall clock of the UTC+7 zone
  server_offset,  \* hours from the UTC+7 zone to the server's own zone
  req,            \* the check-in requests in flight; overtaken holds the
                  \* location_data of a check-in of the same record committed
                  \* since the load, and the location that check-in had loaded
  last,           \* the request handled last (its operation, caller, record
                  \* and location_data) and its response (code, detail)
  call            \* the arguments and the result of a function applied on its own

vars == <<attendance, schedule, uploads, clock, server_offset, req, last, call>>

Requests == 1 .. NumRequests

get_indonesia_time == clock
get_indonesia_date == clock.date
datetime_now == Shift(clock, server_offset)
datetime_today == Shift(clock, server_offset).date

IdleReq ==
  [pc |-> "idle", attendance_id |-> 0, user |-> [type |-> "admin", id |-> 1],
   attendance |-> None, schedule |-> None,
   location_data |-> PyNone, smile_detected |-> FALSE,
   overtaken |-> None]

NoCall == [fn |-> "none"]

NoRequest ==
  [op |-> "none", user_type |-> "", code |-> 200, detail |-> "",
   attendance_id |-> 0, location_data |-> PyNone]

Response(op, user, code, detail, id) ==
  [op |-> op, user_type |-> user.type, code |-> code, detail |-> detail,
   attendance_id |-> id, location_data |-> PyNone]

\* the state with the given rows, schedule 1 starting at start_time
\* (there is no schedule 2), and the clock at instant
InitWith(rows, start_time, instant) ==
  /\ attendance = rows
  /\ schedule = [i \in ScheduleIds |->
                   IF i = 1
                   THEN Some([schedule_id |-> 1, course_id |-> 1,
                              schedule_date |-> 1, start_time |-> start_time])
                   ELSE None]
  /\ uploads = {}
  /\ clock = instant
  /\ server_offset \in ServerOffsets
  /\ req = [p \in Requests |-> IdleReq]
  /\ last = NoRequest
  /\ call = NoCall

Init == InitWith({}, StartTime, [date |-> 1, tod |-> <<6, 0, 0>>])

(***************************************************************************)
(* The attendance table.                                                   *)
(***************************************************************************)
Ids == {r.attendance_id : r \in attendance}
Row(id) == CHOOSE r \in attendance : r.attendance_id = id

\* the rowid SQLite gives the next inserted row
NextId ==
  IF attendance = {} THEN 1
  ELSE (CHOOSE i \in Ids : \A j \in Ids : j <= i) + 1

\* db.get(Attendance, id) and the select of get_attendance
db_get(id) == IF id \in Ids THEN Some(Row(id)) ELSE None

\* a new row that starts ON_GOING
NewAttendanceOnGoing(id, student_id, schedule_id, today) ==
  [attendance_id |-> id, student_id |-> student_id, schedule_id |-> schedule_id,
   date |-> today, check_in_time |-> None, status |-> "ON_GOING",
   location_data |-> PyNone, face_verification_data |-> PyNone,
   smile_detected |-> FALSE, image_captured_url |-> None,
   updated_at |-> None]

NewAttendance(id, student_id, schedule_id, today) ==
  [attendance_id |-> id, student_id |-> student_id, schedule_id |-> schedule_id,
   date |-> today, check_in_time |-> None, status |-> "ABSENT",
   location_data |-> PyNone, face_verification_data |-> PyNone,
   smile_detected |-> FALSE, image_captured_url |-> None,
   updated_at |-> None]

\* time passes
Tick(t) ==
  /\ DateTimeGT(t, clock)
  /\ clock' = t
  /\ UNCHANGED <<attendance, schedule, uploads, server_offset, req, last, call>>

(***************************************************************************)
(* POST /attendances/ and POST /attendances/multiple.                      *)
(***************************************************************************)
\* create_attendance of the crud layer: the table after the insert
create_attendance(student_id, schedule_id) ==
  attendance \cup {NewAttendance(NextId, student_id, schedule_id, get_indonesia_date)}

\* create_multiple_attendances: one row per entry of the list
create_multiple_attendances(student_ids, schedule_id) ==
  attendance \cup
    { NewAttendance(NextId + k - 1, student_ids[k], schedule_id, get_indonesia_date) :
        k \in 1 .. Len(student_ids) }

\* what the authorisation of the two create endpoints answers before the
\* insert: 0 when the request may go on
create_guard(user, schedule_id) ==
  IF user.type \notin {"admin", "instructor"} THEN 403
  ELSE IF user.type = "instructor"
       THEN IF schedule[schedule_id] = None THEN 404
            \* current_user is the dict of get_current_admin_or_instructor:
            \* reading current_user.instructor_id raises AttributeError
            ELSE 500
  ELSE 0

CreateAttendance(user, student_id, schedule_id) ==
  LET code == create_guard(user, schedule_id)
  IN  /\ IF code # 0
         THEN /\ last' = Response("create", user, code, "create rejected", 0)
              /\ UNCHANGED attendance
         ELSE /\ attendance' = create_attendance(student_id, schedule_id)
              /\ last' = Response("create", user, 200, "", NextId)
      /\ UNCHANGED <<schedule, uploads, clock, server_offset, req, call>>

StudentIdLists == UNION {[1 .. n -> Students] : n \in 0 .. MaxRecords}

CreateMultiple(user, student_ids, schedule_id) ==
  LET code == IF user.type \notin {"admin", "instructor"} THEN 403
              ELSE IF student_ids = <<>> THEN 400
              ELSE create_guard(user, schedule_id)
  IN  /\ IF code # 0
         THEN /\ last' = Response("create_multiple", user, code, "create rejected", 0)
              /\ UNCHANGED attendance
         ELSE /\ attendance' = create_multiple_attendances(student_ids, schedule_id)
              /\ last' = Response("create_multiple", user, 200, "", NextId)
      /\ UNCHANGED <<schedule, uploads, clock, server_offset, req, call>>

(***************************************************************************)
(* crud.student_check_in.                                                  *)
(***************************************************************************)
\* the time the split start_time string stands for, None when the
\* conversion raises (too few parts, or a part that is no integer)
schedule_start(start_time) ==
  LET start_time_parts == Split(start_time, ":")
  IN  IF Len(start_time_parts) < 2 THEN None
      ELSE IF \E k \in 1 .. Len(start_time_parts) : ~IsIntText(start_time_parts[k])
      THEN None
      ELSE Some(<<IntOf(start_time_parts[1]), IntOf(start_time_parts[2]),
                  IF Len(start_time_parts) > 2 THEN IntOf(start_time_parts[3]) ELSE 0>>)

\* the comparison with >= in the place of >
resolve_status_ge(check_in_time, start_time) ==
  IF DateTimeGT(check_in_time, start_time) \/ check_in_time = start_time
  THEN "LATE" ELSE "PRESENT"

\* the comparison of the check-in time with the schedule's start
resolve_status(check_in_time, start_time) ==
  IF DateTimeGT(check_in_time, start_time) THEN "LATE" ELSE "PRESENT"

\* whether student_check_in gets through the schedule's start_time
start_time_parses(sched) ==
  sched = None \/ schedule_start(Val(sched).start_time) # None

\* student_check_in keeping the check_in_time a record already has
student_check_in_keeps_first(obj, sched, check_in_data, image_captured_url) ==
  LET now == get_indonesia_time
      check_in_time == IF obj.check_in_time # None THEN Val(obj.check_in_time)
                       ELSE IF check_in_data.check_in_time # None
                       THEN Val(check_in_data.check_in_time) ELSE now
      status == IF sched # None
                THEN resolve_status(
                       check_in_time,
                       [date |-> get_indonesia_date,
                        tod |-> Val(schedule_start(Val(sched).start_time))])
                ELSE "PRESENT"
  IN  [obj EXCEPT
         !.check_in_time = Some(check_in_time),
         !.status = status,
         !.location_data =
            IF Truthy(check_in_data.location_data)
            THEN process_json_field(check_in_data.location_data) ELSE @,
         !.face_verification_data =
            IF Truthy(check_in_data.face_verification_data)
            THEN process_json_field(check_in_data.face_verification_data) ELSE @,
         !.smile_detected =
            IF check_in_data.smile_detected # None
            THEN Val(check_in_data.smile_detected) ELSE @,
         !.image_captured_url =
            IF image_captured_url # None THEN image_captured_url ELSE @]

\* the attributes student_check_in sets on the loaded object obj, the
\* schedule being sched (None when db.get finds none)
student_check_in(obj, sched, check_in_data, image_captured_url) ==
  LET now == get_indonesia_time
      check_in_time == IF check_in_data.check_in_time # None
                       THEN Val(check_in_data.check_in_time) ELSE now
      status == IF sched # None
                THEN resolve_status(
                       check_in_time,
                       [date |-> get_indonesia_date,
                        tod |-> Val(schedule_start(Val(sched).start_time))])
                ELSE "PRESENT"
  IN  [obj EXCEPT
         !.check_in_time = Some(check_in_time),
         !.status = status,
         !.location_data =
            IF Truthy(check_in_data.location_data)
            THEN process_json_field(check_in_data.location_data) ELSE @,
         !.face_verification_data =
            IF Truthy(check_in_data.face_verification_data)
            THEN process_json_field(check_in_data.face_verification_data) ELSE @,
         !.smile_detected =
            IF check_in_data.smile_detected # None
            THEN Val(check_in_data.smile_detected) ELSE @,
         !.image_captured_url =
            IF image_captured_url # None THEN image_captured_url ELSE @]

\* db.commit() of a session that loaded the row as loaded and holds it as
\* obj: an UPDATE of the changed columns of the row with that primary key
Fields == DOMAIN NewAttendance(0, 0, 0, 0)
commit(loaded, obj) ==
  LET cur == Row(loaded.attendance_id)
      new == [f \in Fields |-> IF obj[f] # loaded[f] THEN obj[f] ELSE cur[f]]
  IN  (attendance \ {cur}) \cup {new}

(***************************************************************************)
(* POST /attendances/{attendance_id}/check-in.  The handler loads the      *)
(* record, authorises the caller and checks the upload (CheckInBegin);     *)
(* after the awaited image read and verification it stores the image and   *)
(* commits the check-in (CheckInFinish).  Other requests run in between.   *)
(***************************************************************************)
LocationForms ==
  { PyNone,
    PyStr(<<"{", "}">>),
    PyStr(<<"{", "lat", "1", "}">>),
    PyStr(<<"{", "lat", "2", "}">>) }

UploadFiles ==
  { [filename |-> "", content_type |-> ""],
    [filename |-> "face.jpg", content_type |-> "image/jpeg"],
    [filename |-> "notes.pdf", content_type |-> "application/pdf"] }

\* getattr(current_user, "role", None): no user model has a role column
role_of(user) == "None"

\* crud.instructor_course.get_instructor_courses(db, skip, limit)
get_instructor_courses(skip, limit) ==
  SubSeq(instructor_course, skip + 1,
         IF skip + limit < Len(instructor_course)
         THEN skip + limit ELSE Len(instructor_course))

\* the checks of the endpoint before it starts the check-in: the status
\* code and detail of the HTTPException, code 0 when there is none
check_in_guard(user, att, location_data, image, model_exists) ==
  IF att = None
  THEN [code |-> 404, detail |-> "Attendance record not found"]
  ELSE IF user.type = "student" /\ user.id # Val(att).student_id
  THEN [code |-> 403,
        detail |-> "You can only check in to your own attendance records"]
  ELSE IF user.type # "student" /\ role_of(user) \notin {"ADMIN", "INSTRUCTOR"}
  THEN [code |-> 403, detail |-> "Unauthorized to check in for this attendance"]
  ELSE IF user.type = "instructor" /\ schedule[Val(att).schedule_id] = None
  THEN [code |-> 404, detail |-> "Schedule not found"]
  ELSE IF user.type = "instructor"
          /\ get_instructor_courses(
               user.id, Val(schedule[Val(att).schedule_id]).course_id) = <<>>
  THEN [code |-> 403,
        detail |-> "You can only manage attendance for courses you are teaching"]
  \* AttendanceCheckIn(...) raises ValidationError
  ELSE IF ~is_dict_or_str(parse_json_string(location_data))
  THEN [code |-> 500, detail |-> "Internal Server Error"]
  ELSE IF image.filename = ""
  THEN [code |-> 400, detail |-> "An image is required for face verification"]
  ELSE IF image.content_type \notin {"image/jpeg", "image/png", "image/jpg"}
  THEN [code |-> 400, detail |-> "File must be an image (JPEG, PNG, or JPG)"]
  ELSE IF ~model_exists
  THEN [code |-> 500, detail |-> "Face recognition model not found"]
  ELSE [code |-> 0, detail |-> ""]

CheckInResponse(p, code, detail) ==
  [Response("check_in", req[p].user, code, detail, req[p].attendance_id)
     EXCEPT !.location_data = req[p].location_data]

CheckInBegin(p, user, attendance_id, location_data, smile_detected, image, model_exists) ==
  LET att == db_get(attendance_id)
      guard == check_in_guard(user, att, location_data, image, model_exists)
  IN  /\ req[p].pc = "idle"
      /\ IF guard.code # 0
         THEN /\ last' = [Response("check_in", user, guard.code, guard.detail,
                                   attendance_id)
                             EXCEPT !.location_data = location_data]
              /\ UNCHANGED req
         ELSE /\ req' = [req EXCEPT ![p] =
                    [pc |-> IF user.type = "student" THEN "verifying" ELSE "saving",
                     attendance_id |-> attendance_id, user |-> user,
                     attendance |-> att,
                     schedule |-> schedule[Val(att).schedule_id],
                     location_data |-> location_data,
                     smile_detected |-> smile_detected,
                     overtaken |-> None]]
              /\ UNCHANGED last
      /\ UNCHANGED <<attendance, schedule, uploads, clock, server_offset, call>>

\* the name the endpoint stores the uploaded image under
image_url(attendance_id) ==
  [attendance_id |-> attendance_id, timestamp |-> datetime_now, ext |-> ".jpg"]

\* the face_verification_data student_check_in_with_verification dumps
face_verification_json(result, nim, confidence_threshold) ==
  PyStr(JsonDumps(PyDict(
    <<"verified", ToString(result.verified),
      "confidence", ToString(result.confidence), "predicted_name">>
    \o result.predicted_name \o <<"predicted_nim">>
    \o (IF result.predicted_nim = None THEN <<"null">> ELSE Val(result.predicted_nim))
    \o <<"expected_nim">> \o nim
    \o <<"confidence_threshold", ToString(confidence_threshold),
         "nim_match", ToString(result.nim_match),
         "confidence_ok", ToString(result.confidence_ok),
         "timestamp", ToString(datetime_now)>>)))

\* the check-in data the endpoint builds from the form fields
AttendanceCheckIn(location_data, face_verification_data, smile_detected) ==
  [check_in_time |-> None,
   location_data |-> parse_json_string(location_data),
   face_verification_data |-> face_verification_data,
   smile_detected |-> Some(smile_detected)]

\* the call of crud.student_check_in and its commit; raised is TRUE when
\* start_time does not parse or the UPDATE finds no row
CheckInWrite(p, check_in_data, url) ==
  LET loaded == Val(req[p].attendance)
      obj == [loaded EXCEPT
                !.location_data = process_json_field(@),
                !.face_verification_data = process_json_field(@)]
      sched == IF req[p].schedule # None THEN req[p].schedule
               ELSE schedule[loaded.schedule_id]
      raised == ~start_time_parses(sched) \/ loaded.attendance_id \notin Ids
  IN  [raised |-> raised,
       table |-> IF raised THEN attendance
                 ELSE commit(loaded, student_check_in(obj, sched, check_in_data, url))]

\* student_check_in_with_verification storing the image before it looks
\* at the verification result
VerifiedCheckInSavesFirst(p, service_loads, outcome) ==
  LET nim == NimOf(req[p].user.id)
      result == verify_face(outcome, nim, DefaultConfidenceThreshold)
      url == image_url(req[p].attendance_id)
      check_in_data ==
        AttendanceCheckIn(req[p].location_data,
                          face_verification_json(result, nim, DefaultConfidenceThreshold),
                          req[p].smile_detected)
      write == CheckInWrite(p, check_in_data, Some(url))
  IN  IF ~service_loads
      THEN /\ last' = CheckInResponse(p, 403, "Error during check-in")
           /\ UNCHANGED <<attendance, uploads>>
      ELSE /\ uploads' = uploads \cup {url}
           /\ IF ~result.verified
              THEN /\ last' = CheckInResponse(p, 403,
                                "Check-in denied: " \o result.message)
                   /\ UNCHANGED attendance
              ELSE /\ attendance' = write.table
                   /\ last' = IF write.raised
                              THEN CheckInResponse(p, 403, "Error during check-in")
                              ELSE CheckInResponse(p, 200, "")

\* student_check_in_with_verification
VerifiedCheckIn(p, service_loads, outcome) ==
  LET nim == NimOf(req[p].user.id)
      result == verify_face(outcome, nim, DefaultConfidenceThreshold)
      url == image_url(req[p].attendance_id)
      check_in_data ==
        AttendanceCheckIn(req[p].location_data,
                          face_verification_json(result, nim, DefaultConfidenceThreshold),
                          req[p].smile_detected)
      write == CheckInWrite(p, check_in_data, Some(url))
  IN  IF ~service_loads
      THEN /\ last' = CheckInResponse(p, 403, "Error during check-in")
           /\ UNCHANGED <<attendance, uploads>>
      ELSE IF ~result.verified
      THEN /\ last' = CheckInResponse(p, 403, "Check-in denied: " \o result.message)
           /\ UNCHANGED <<attendance, uploads>>
      ELSE /\ uploads' = uploads \cup {url}
           /\ attendance' = write.table
           /\ last' = IF write.raised
                      THEN CheckInResponse(p, 403, "Error during check-in")
                      ELSE CheckInResponse(p, 200, "")

\* the branch of the endpoint for admins and instructors
PrivilegedCheckIn(p) ==
  LET old == Val(req[p].attendance).image_captured_url
      url == image_url(req[p].attendance_id)
      check_in_data ==
        AttendanceCheckIn(req[p].location_data, PyNone, req[p].smile_detected)
      write == CheckInWrite(p, check_in_data, Some(url))
  IN  /\ uploads' = ((IF old # None THEN uploads \ {Val(old)} ELSE uploads)
                     \cup {url})
      /\ attendance' = write.table
      /\ last' = IF write.raised
                 THEN CheckInResponse(p, 500, "Internal Server Error")
                 ELSE CheckInResponse(p, 200, "")

CheckInFinish(p, service_loads, outcome) ==
  /\ req[p].pc # "idle"
  /\ IF req[p].pc = "verifying"
     THEN VerifiedCheckIn(p, service_loads, outcome)
     ELSE PrivilegedCheckIn(p)
  /\ req' = [q \in Requests |->
               IF q = p THEN IdleReq
               ELSE IF /\ last'.code = 200
                       /\ req[q].pc # "idle"
                       /\ req[q].attendance_id = req[p].attendance_id
                    THEN [req[q] EXCEPT !.overtaken =
                            Some([location_data |-> req[p].location_data,
                                  loaded |-> Val(req[p].attendance).location_data])]
                    ELSE req[q]]
  /\ UNCHANGED <<schedule, clock, server_offset, call>>

\* the request is dropped while the handler awaits the image and the
\* verification (the client has gone, the server has timed out): the task
\* is cancelled at its await and no response is sent (code 0)
CheckInAbandon(p) ==
  /\ req[p].pc = "verifying"
  /\ req' = [req EXCEPT ![p] = IdleReq]
  /\ last' = CheckInResponse(p, 0, "abandoned")
  /\ UNCHANGED <<attendance, schedule, uploads, clock, server_offset, call>>

(***************************************************************************)
(* crud.student_direct_check_in.                                           *)
(***************************************************************************)
\* find_student_attendance: the first row of the student for the schedule
\* dated the server's today (SQLite answers in rowid order)
find_student_attendance(student_id, schedule_id) ==
  LET found == {r \in attendance :
                  /\ r.student_id = student_id
                  /\ r.schedule_id = schedule_id
                  /\ r.date = datetime_today}
  IN  IF found = {} THEN None
      ELSE Some(CHOOSE r \in found :
                  \A o \in found : r.attendance_id <= o.attendance_id)

DirectCheckIn(student_id, schedule_id, location_data, face_verification_data, smile_detected, image_captured_url) ==
  LET today == datetime_today
      existing_attendance == find_student_attendance(student_id, schedule_id)
      sched == schedule[schedule_id]
      now == datetime_now
      status == IF DateTimeGT(now, [date |-> today,
                                    tod |-> Val(schedule_start(Val(sched).start_time))])
                THEN "LATE" ELSE "PRESENT"
      checked_in(row) ==
        [row EXCEPT
           !.check_in_time = Some(now),
           !.status = status,
           !.location_data = process_json_field(location_data),
           !.face_verification_data = process_json_field(face_verification_data),
           !.smile_detected = smile_detected,
           !.image_captured_url = image_captured_url]
      user == [type |-> "student", id |-> student_id]
  IN  /\ IF sched = None
         THEN /\ last' = Response("direct_check_in", user, 404, "no schedule", 0)
              /\ UNCHANGED attendance
         ELSE IF ~start_time_parses(sched)
         THEN /\ last' = Response("direct_check_in", user, 500, "start_time", 0)
              /\ UNCHANGED attendance
         ELSE IF existing_attendance # None
         THEN /\ attendance' = (attendance \ {Val(existing_attendance)})
                                 \cup {checked_in(Val(existing_attendance))}
              /\ last' = Response("direct_check_in", user, 200, "updated",
                                  Val(existing_attendance).attendance_id)
         ELSE /\ attendance' = attendance \cup
                   {checked_in(NewAttendance(NextId, student_id, schedule_id, today))}
              /\ last' = Response("direct_check_in", user, 200, "created", NextId)
      /\ UNCHANGED <<schedule, uploads, clock, server_offset, req, call>>

\* student_direct_check_in up to the answer of find_student_attendance:
\* the call has read today and looked the record up, and other calls run
\* before it goes on
DirectLookup(p, student_id, schedule_id, location_data, face_verification_data, smile_detected, image_captured_url) ==
  /\ req[p].pc = "idle"
  /\ req' = [req EXCEPT ![p] =
       [pc |-> "direct", student_id |-> student_id, schedule_id |-> schedule_id,
        today |-> datetime_today,
        existing_attendance |-> find_student_attendance(student_id, schedule_id),
        location_data |-> location_data,
        face_verification_data |-> face_verification_data,
        smile_detected |-> smile_detected,
        image_captured_url |-> image_captured_url]]
  /\ UNCHANGED <<attendance, schedule, uploads, clock, server_offset, last, call>>

\* the rest of student_direct_check_in: the schedule, the status, and the
\* commit of the update of the record found or of the insert of a new one
DirectWrite(p) ==
  LET r == req[p]
      sched == schedule[r.schedule_id]
      now == datetime_now
      status == IF DateTimeGT(now, [date |-> r.today,
                                    tod |-> Val(schedule_start(Val(sched).start_time))])
                THEN "LATE" ELSE "PRESENT"
      checked_in(row) ==
        [row EXCEPT
           !.check_in_time = Some(now),
           !.status = status,
           !.location_data = process_json_field(r.location_data),
           !.face_verification_data = process_json_field(r.face_verification_data),
           !.smile_detected = r.smile_detected,
           !.image_captured_url = r.image_captured_url]
      user == [type |-> "student", id |-> r.student_id]
  IN  /\ r.pc = "direct"
      /\ IF sched = None
         THEN /\ last' = Response("direct_check_in", user, 404, "no schedule", 0)
              /\ UNCHANGED attendance
         ELSE IF ~start_time_parses(sched)
         THEN /\ last' = Response("direct_check_in", user, 500, "start_time", 0)
              /\ UNCHANGED attendance
         ELSE IF r.existing_attendance # None
         THEN IF Val(r.existing_attendance).attendance_id \notin Ids
              THEN /\ last' = Response("direct_check_in", user, 500, "stale", 0)
                   /\ UNCHANGED attendance
              ELSE /\ attendance' = commit(Val(r.existing_attendance),
                                           checked_in(Val(r.existing_attendance)))
                   /\ last' = Response("direct_check_in", user, 200, "updated",
                                       Val(r.existing_attendance).attendance_id)
         ELSE /\ attendance' = attendance \cup
                   {checked_in(NewAttendance(NextId, r.student_id, r.schedule_id,
                                             r.today))}
              /\ last' = Response("direct_check_in", user, 200, "created", NextId)
      /\ req' = [req EXCEPT ![p] = IdleReq]
      /\ UNCHANGED <<schedule, uploads, clock, server_offset, call>>

(***************************************************************************)
(* PATCH /attendances/{attendance_id} and DELETE /attendances/{id}.        *)
(***************************************************************************)
\* the fields the schema AttendanceUpdate declares
AttendanceUpdateFields ==
  {"status", "updated_at", "location_data", "face_verification_data",
   "image_captured_url"}

\* AttendanceUpdate taking over every key of the body (extra = "allow")
AttendanceUpdateAllowsExtra(body) == body

\* the AttendanceUpdate pydantic makes of a request body: the declared
\* fields the body holds, every other key of the body being ignored
AttendanceUpdate(body) ==
  [f \in DOMAIN body \cap AttendanceUpdateFields |-> body[f]]

\* update_attendance of the crud layer: every field the request sets is
\* assigned with setattr, the endpoint having normalised the payloads and
\* added updated_at
update_attendance(row, update) ==
  [f \in Fields |->
     IF f = "updated_at" THEN Some(get_indonesia_time)
     ELSE IF f \in DOMAIN update /\ update[f] # None
     THEN IF f \in {"location_data", "face_verification_data"}
          THEN process_json_field(Val(update[f]))
          ELSE IF f = "image_captured_url" THEN update[f]
          ELSE Val(update[f])
     ELSE row[f]]

UpdateAttendance(user, attendance_id, update) ==
  /\ IF user.type \notin {"admin", "instructor"}
     THEN /\ last' = Response("update", user, 403, "Not authorized", attendance_id)
          /\ UNCHANGED attendance
     ELSE IF db_get(attendance_id) = None
     THEN /\ last' = Response("update", user, 404, "Attendance not found",
                              attendance_id)
          /\ UNCHANGED attendance
     ELSE /\ attendance' =
               (attendance \ {Row(attendance_id)})
               \cup {update_attendance(Row(attendance_id), AttendanceUpdate(update))}
          /\ last' = Response("update", user, 200, "", attendance_id)
  /\ UNCHANGED <<schedule, uploads, clock, server_offset, req, call>>

DeleteAttendance(user, attendance_id) ==
  /\ IF user.type \notin {"admin", "instructor"}
     THEN /\ last' = Response("delete", user, 403, "Not authorized", attendance_id)
          /\ UNCHANGED attendance
     ELSE IF db_get(attendance_id) = None
     THEN /\ last' = Response("delete", user, 404, "Attendance not found",
                              attendance_id)
          /\ UNCHANGED attendance
     ELSE /\ attendance' = attendance \ {Row(attendance_id)}
          /\ last' = Response("delete", user, 200, "", attendance_id)
  /\ UNCHANGED <<schedule, uploads, clock, server_offset, req, call>>

(***************************************************************************)
(* Spec: the requests are handled one at a time (a check-in runs from its  *)
(* begin to its finish before the next request starts); the table holds    *)
(* up to MaxCheckInRecords rows.                                           *)
(***************************************************************************)
SmileForms == {TRUE}
AllIdle == \A p \in Requests : req[p].pc = "idle"

Next ==
  \/ \E t \in Instants : Tick(t)
  \/ /\ AllIdle
     /\ NextId <= MaxCheckInRecords
     /\ \E u \in Users, s \in Students, sc \in ScheduleIds : CreateAttendance(u, s, sc)
  \/ /\ AllIdle
     /\ \E u \in Users, id \in 1 .. MaxCheckInRecords,
           l \in LocationForms, sm \in SmileForms, im \in UploadFiles,
           me \in BOOLEAN :
          CheckInBegin(1, u, id, l, sm, im, me)
  \/ \E p \in Requests, service_loads \in BOOLEAN, outcome \in PipelineOutcomes :
       CheckInFinish(p, service_loads, outcome)

Spec == Init /\ [][Next]_vars

(***************************************************************************)
(* SpecStore: the operations on the table, one at a time, on up to         *)
(* MaxRecords rows.                                                        *)
(***************************************************************************)
DirectLocations == {PyNone, PyStr(<<"{", "lat", "1", "}">>)}
Updates ==
  [status : {None, Some("PRESENT"), Some("ABSENT"), Some("EXCUSED")},
   location_data : {None, Some(PyDict(<<"lat", "2">>))}]

NextStore ==
  \/ \E t \in Instants : Tick(t)
  \/ /\ NextId <= MaxRecords
     /\ \E u \in Users, s \in Students, sc \in ScheduleIds : CreateAttendance(u, s, sc)
  \/ \E u \in Users, l \in StudentIdLists, sc \in ScheduleIds :
       /\ NextId + Len(l) - 1 <= MaxRecords
       /\ CreateMultiple(u, l, sc)
  \/ \E s \in Students, sc \in ScheduleIds, l \in DirectLocations :
       /\ NextId <= MaxRecords
       /\ DirectCheckIn(s, sc, l, PyNone, FALSE, None)
  \/ \E u \in Users, id \in 1 .. MaxRecords, upd \in Updates :
       UpdateAttendance(u, id, upd)
  \/ \E u \in Users, id \in 1 .. MaxRecords : DeleteAttendance(u, id)

SpecStore == Init /\ [][NextStore]_vars

(***************************************************************************)
(* SpecRace: check-in requests of students overlap with an admin's create  *)
(* and delete, on up to MaxCheckInRecords rows.                            *)
(***************************************************************************)
Admin == [type |-> "admin", id |-> 1]
StudentUsers == {u \in Users : u.type = "student"}
Jpeg == [filename |-> "face.jpg", content_type |-> "image/jpeg"]
RaceOutcomes ==
  { [kind |-> "no_face", label |-> <<>>, confidence |-> 0] } \cup
  { o \in PipelineOutcomes : o.kind = "prediction" /\ o.confidence = 50 }

NextRace ==
  \/ /\ NextId <= MaxCheckInRecords
     /\ \E s \in Students : CreateAttendance(Admin, s, 1)
  \/ \E id \in 1 .. MaxCheckInRecords : DeleteAttendance(Admin, id)
  \/ \E p \in Requests, u \in StudentUsers, id \in 1 .. MaxCheckInRecords :
       /\ db_get(id) # None
       /\ CheckInBegin(p, u, id, PyStr(<<"{", "lat", "1", "}">>), TRUE, Jpeg, TRUE)
  \/ \E p \in Requests, outcome \in RaceOutcomes :
       CheckInFinish(p, TRUE, outcome)

SpecRace == Init /\ [][NextRace]_vars

(***************************************************************************)
(* SpecOverlap: check-in requests for one record overlap with each other.  *)
(***************************************************************************)
RaceLocationForms ==
  { PyStr(<<"{", "}">>), PyStr(<<"null">>), PyStr(<<"{", "lat", "1", "}">>) }

InitOverlap ==
  InitWith({NewAttendance(1, 1, 1, 1)}, StartTime,
           [date |-> 1, tod |-> <<6, 0, 0>>])

NextOverlap ==
  \/ \E p \in Requests, u \in StudentUsers, l \in RaceLocationForms :
       CheckInBegin(p, u, 1, l, TRUE, Jpeg, TRUE)
  \/ \E p \in Requests, outcome \in RaceOutcomes :
       CheckInFinish(p, TRUE, outcome)

SpecOverlap == InitOverlap /\ [][NextOverlap]_vars

(***************************************************************************)
(* SpecResolve: one check-in of a fresh record, for every start time and   *)
(* every instant of the check-in.                                          *)
(***************************************************************************)
ResolveStartTimes ==
  { <<"08", ":", "00">>,
    <<"08", ":", "00", ":", "00">>,
    <<"08", ":", "00", ":", "01">>,
    <<"06", ":", "00">> }
ResolveInstants ==
  [date : Dates, tod : {<<6, 0, 0>>, <<8, 0, 0>>, <<8, 0, 1>>, <<8, 1, 0>>}]

InitResolve ==
  \E st \in ResolveStartTimes, t \in ResolveInstants :
    InitWith({NewAttendance(1, 1, 1, t.date)}, st, t)

NextResolve ==
  \/ \E t \in ResolveInstants : Tick(t)
  \/ \E u \in StudentUsers : CheckInBegin(1, u, 1, PyNone, TRUE, Jpeg, TRUE)
  \/ \E service_loads \in BOOLEAN, outcome \in PipelineOutcomes :
       CheckInFinish(1, service_loads, outcome)

SpecResolve == InitResolve /\ [][NextResolve]_vars

(***************************************************************************)
(* SpecRepeat: the student of one record checks in again and again, as     *)
(* time passes.                                                            *)
(***************************************************************************)
InitRepeat ==
  InitWith({NewAttendance(1, 1, 1, 1)}, StartTime,
           [date |-> 1, tod |-> <<6, 0, 0>>])

NextRepeat ==
  \/ \E t \in Instants : Tick(t)
  \/ \E l \in LocationForms, im \in UploadFiles :
       CheckInBegin(1, [type |-> "student", id |-> 1], 1, l, TRUE, im, TRUE)
  \/ \E service_loads \in BOOLEAN, outcome \in PipelineOutcomes :
       CheckInFinish(1, service_loads, outcome)

SpecRepeat == InitRepeat /\ [][NextRepeat]_vars

(***************************************************************************)
(* SpecCreate: the operations that insert rows (create, bulk create,       *)
(* direct check-in), one at a time, on up to MaxRecords rows.              *)
(***************************************************************************)
NextCreate ==
  \/ \E t \in Instants : Tick(t)
  \/ /\ NextId <= MaxRecords
     /\ \E u \in Users, s \in Students, sc \in ScheduleIds : CreateAttendance(u, s, sc)
  \/ \E u \in Users, l \in StudentIdLists, sc \in ScheduleIds :
       /\ NextId + Len(l) - 1 <= MaxRecords
       /\ CreateMultiple(u, l, sc)
  \/ \E s \in Students, sc \in ScheduleIds, l \in DirectLocations :
       /\ NextId <= MaxRecords
       /\ DirectCheckIn(s, sc, l, PyNone, FALSE, None)

SpecCreate == Init /\ [][NextCreate]_vars

(***************************************************************************)
(* SpecPayload: the student of one record checks in with every form of     *)
(* location_data, and an admin updates the record.                         *)
(***************************************************************************)
PayloadForms ==
  { PyNone,
    PyStr(<<>>),
    PyStr(<<"not json">>),
    PyStr(<<"null">>),
    PyStr(<<"true">>),
    PyStr(<<"5">>),
    PyStr(<<"\"", "abc", "\"">>),
    PyStr(<<"\"", "[", "1", "]", "\"">>),
    PyStr(<<"[", "1", "]">>),
    PyStr(<<"{", "lat", "1", "}">>) }

NextPayload ==
  \/ \E l \in PayloadForms :
       CheckInBegin(1, [type |-> "student", id |-> 1], 1, l, TRUE, Jpeg, TRUE)
  \/ \E outcome \in RaceOutcomes : CheckInFinish(1, TRUE, outcome)
  \/ \E upd \in Updates : UpdateAttendance(Admin, 1, upd)

SpecPayload == InitRepeat /\ [][NextPayload]_vars

(***************************************************************************)
(* SpecDated: the student of one record checks in on the day of the        *)
(* schedule, on the day before and on the day after.                       *)
(***************************************************************************)
ScheduleDates == 0 .. MaxDay + 1

InitDated ==
  /\ attendance = {NewAttendance(1, 1, 1, 1)}
  /\ \E schedule_date \in ScheduleDates :
       schedule = [i \in ScheduleIds |->
                     IF i = 1
                     THEN Some([schedule_id |-> 1, course_id |-> 1,
                                schedule_date |-> schedule_date,
                                start_time |-> StartTime])
                     ELSE None]
  /\ uploads = {}
  /\ clock \in Instants
  /\ server_offset \in ServerOffsets
  /\ req = [p \in Requests |-> IdleReq]
  /\ last = NoRequest
  /\ call = NoCall

NextDated ==
  \/ \E t \in Instants : Tick(t)
  \/ \E l \in LocationForms :
       CheckInBegin(1, [type |-> "student", id |-> 1], 1, l, TRUE, Jpeg, TRUE)
  \/ \E outcome \in RaceOutcomes : CheckInFinish(1, TRUE, outcome)

SpecDated == InitDated /\ [][NextDated]_vars

(***************************************************************************)
(* SpecLifecycle: the operations that write records (create, bulk create,  *)
(* check-in, direct check-in, update), one at a time, on up to             *)
(* MaxCheckInRecords rows.                                                 *)
(***************************************************************************)
\* request bodies of the update: a status, and a body that also names
\* another student and another schedule
StatusUpdates ==
  [status : {None, Some("ON_GOING"), Some("ABSENT")}, location_data : {None}]
  \cup {[status |-> Some("ABSENT"), student_id |-> Some(2), schedule_id |-> Some(2)]}

NextLifecycle ==
  \/ /\ AllIdle
     /\ NextId <= MaxCheckInRecords
     /\ \E s \in Students : CreateAttendance(Admin, s, 1)
  \/ \E l \in StudentIdLists :
       /\ AllIdle
       /\ NextId + Len(l) - 1 <= MaxCheckInRecords
       /\ CreateMultiple(Admin, l, 1)
  \/ \E s \in Students :
       /\ AllIdle
       /\ find_student_attendance(s, 1) # None \/ NextId <= MaxCheckInRecords
       /\ DirectCheckIn(s, 1, PyNone, PyNone, FALSE, None)
  \/ \E u \in StudentUsers, id \in 1 .. MaxCheckInRecords :
       CheckInBegin(1, u, id, PyNone, TRUE, Jpeg, TRUE)
  \/ \E outcome \in RaceOutcomes : CheckInFinish(1, TRUE, outcome)
  \/ \E id \in 1 .. MaxCheckInRecords, upd \in StatusUpdates :
       /\ AllIdle
       /\ UpdateAttendance(Admin, id, upd)

SpecLifecycle == Init /\ [][NextLifecycle]_vars

(***************************************************************************)
(* SpecAbandon: the student of one record checks in again and again, and   *)
(* a check-in can be dropped while it awaits its verification.             *)
(***************************************************************************)
NextAbandon ==
  \/ \E t \in Instants : Tick(t)
  \/ CheckInBegin(1, [type |-> "student", id |-> 1], 1, PyNone, TRUE, Jpeg, TRUE)
  \/ \E service_loads \in BOOLEAN, outcome \in PipelineOutcomes :
       CheckInFinish(1, service_loads, outcome)
  \/ CheckInAbandon(1)

SpecAbandon == InitRepeat /\ [][NextAbandon]_vars

(***************************************************************************)
(* SpecVerify: verify_face applied to every outcome of the pipeline, every *)
(* expected identity and every threshold.                                  *)
(***************************************************************************)
VerifyConfidences == {0, 42, 50, 51, 100}
VerifyThresholds == {42, 50, 51}
VerifyNims == {<<"11322005">>, <<"11322007">>, <<"Maria Sibarani">>}
VerifyOutcomes ==
  PipelineOutcomes \cup
  { [kind |-> "prediction", label |-> l, confidence |-> c] :
      l \in class_labels, c \in VerifyConfidences }

InitVerify ==
  /\ attendance = {}
  /\ schedule = [i \in ScheduleIds |-> None]
  /\ uploads = {}
  /\ clock = [date |-> 1, tod |-> <<6, 0, 0>>]
  /\ server_offset \in ServerOffsets
  /\ req = [p \in Requests |-> IdleReq]
  /\ last = NoRequest
  /\ \E o \in VerifyOutcomes, n \in VerifyNims, th \in VerifyThresholds :
       call = [fn |-> "verify_face", outcome |-> o, nim |-> n,
               confidence_threshold |-> th, done |-> FALSE,
               result |-> FailedResult("")]

ApplyVerify ==
  /\ call.fn = "verify_face"
  /\ ~call.done
  /\ call' = [call EXCEPT
                !.done = TRUE,
                !.result = verify_face(call.outcome, call.nim,
                                       call.confidence_threshold)]
  /\ UNCHANGED <<attendance, schedule, uploads, clock, server_offset, req, last>>

NextVerify == ApplyVerify

SpecVerify == InitVerify /\ [][NextVerify]_vars

(***************************************************************************)
(* SpecNormalize: process_json_field applied to a value, and once more to  *)
(* what it returned.                                                       *)
(***************************************************************************)
NormalizeTokens == {"not json", "{", "}", "lat", "1", "null", "12345"}
\* the texts of up to two tokens, those of two numbers (one longer number)
\* left out
NormalizeTexts ==
  { text \in UNION {[1 .. n -> NormalizeTokens] : n \in 0 .. 2} :
      Len(text) = 2 => ~(IsJsonNumber(<<text[1]>>) /\ IsJsonNumber(<<text[2]>>)) }
NormalizeItems == {<<>>} \cup [1 .. 2 -> {"lat", "1", "data"}]
NormalizeInputs ==
  {PyNone}
  \cup {PyDict(items) : items \in NormalizeItems}
  \cup {PyInt(n) : n \in JsonNumbers}
  \cup {PyStr(text) : text \in NormalizeTexts}

InitNormalize ==
  /\ attendance = {}
  /\ schedule = [i \in ScheduleIds |-> None]
  /\ uploads = {}
  /\ clock = [date |-> 1, tod |-> <<6, 0, 0>>]
  /\ server_offset \in ServerOffsets
  /\ req = [p \in Requests |-> IdleReq]
  /\ last = NoRequest
  /\ \E data \in NormalizeInputs :
       call = [fn |-> "process_json_field", data |-> data, times |-> 0,
               first |-> PyNone, result |-> data]

ApplyNormalize ==
  /\ call.fn = "process_json_field"
  /\ call.times < 2
  /\ call' = [call EXCEPT
                !.times = @ + 1,
                !.first = IF call.times = 0 THEN process_json_field(call.data) ELSE @,
                !.result = process_json_field(call.result)]
  /\ UNCHANGED <<attendance, schedule, uploads, clock, server_offset, req, last>>

NextNormalize == ApplyNormalize

SpecNormalize == InitNormalize /\ [][NextNormalize]_vars

(***************************************************************************)
(* The claims.                                                             *)
(***************************************************************************)
CheckedIn(r) == r.check_in_time # None

\* C1: every attendance record has status PRESENT or LATE if and only if
\* its check_in_time is set (SpecStore).
C1_StatusIffCheckInTime ==
  \A r \in attendance : (r.status \in {"PRESENT", "LATE"}) <=> CheckedIn(r)

\* C4: the table holds at most one record per student, schedule and date
\* (SpecStore).
C4_OneRecordPerNaturalKey ==
  \A r1, r2 \in attendance :
    (/\ r1.student_id = r2.student_id
     /\ r1.schedule_id = r2.schedule_id
     /\ r1.date = r2.date) => r1 = r2

\* the payload a check-in submitting the form value location_data asks
\* the record to hold
Submitted(location_data) ==
  process_json_field(parse_json_string(location_data))

\* C6: when two check-ins of one attendance id overlap (each loads the
\* record before the other commits) and submit different location_data,
\* the location_data the later commit leaves is one of the two submitted
\* payloads (SpecOverlap).
C6_ConcurrentLocationIsOneInput ==
  [][\A q \in Requests, o \in RaceOutcomes :
       (/\ CheckInFinish(q, TRUE, o)
        /\ last'.code = 200
        /\ req[q].overtaken # None
        /\ Val(req[q].overtaken).loaded = Val(req[q].attendance).location_data
        /\ Val(req[q].overtaken).location_data # req[q].location_data)
       => \A r \in attendance' :
            r.attendance_id = req[q].attendance_id
            => r.location_data \in
                 {Submitted(req[q].location_data),
                  Submitted(Val(req[q].overtaken).location_data)}]_vars

\* C7: a check-in that an admin or an instructor of the course requests
\* for an existing record, with a valid image, is not rejected: it goes on
\* to the save without verification (Spec).
C7_PrivilegedCheckInAccepted ==
  [][\A u \in Users, id \in Ids, l \in LocationForms :
       (/\ u.type # "student"
        /\ CheckInBegin(1, u, id, l, TRUE, Jpeg, TRUE))
       => /\ req'[1].pc = "saving"
          /\ last' = last]_vars

NoImage == [filename |-> "", content_type |-> ""]

\* C8: a student's check-in of their own record without an image is
\* answered 400 and changes nothing, and a check-in without an image by an
\* admin or instructor is not rejected (Spec).
C8_ImageRequiredOnlyForSelfCheckIn ==
  [][\A u \in Users, id \in Ids, l \in LocationForms :
       CheckInBegin(1, u, id, l, TRUE, NoImage, TRUE)
       => IF u.type = "student"
          THEN (u.id = Row(id).student_id)
               => /\ last'.code = 400
                  /\ last'.detail = "An image is required for face verification"
                  /\ attendance' = attendance
                  /\ req' = req
          ELSE req'[1].pc = "saving"]_vars

\* C9: the check-in of a student changes no record of another student
\* (SpecRace).
C9_StudentChangesOnlyOwnRecord ==
  [][\A p \in Requests, o \in RaceOutcomes :
       (/\ CheckInFinish(p, TRUE, o)
        /\ req[p].user.type = "student")
       => \A r \in attendance :
            r.student_id # req[p].user.id => r \in attendance']_vars

\* C2: when the verifier answers verified = FALSE to a student's check-in,
\* the attendance table and the stored images are as they were, and the
\* response is a failure whose detail carries the verifier's message
\* (SpecRepeat).
C2_FailedVerificationChangesNothing ==
  [][\A o \in PipelineOutcomes :
       LET result == verify_face(o, NimOf(req[1].user.id),
                                 DefaultConfidenceThreshold)
       IN  (/\ req[1].pc = "verifying"
            /\ CheckInFinish(1, TRUE, o)
            /\ ~result.verified)
           => /\ attendance' = attendance
              /\ uploads' = uploads
              /\ last'.code = 403
              /\ last'.detail = "Check-in denied: " \o result.message]_vars

\* a checked-in record has outlived a check-in denied for low confidence
C2_Witness ==
  /\ last.op = "check_in"
  /\ last.code = 403
  /\ last.detail =
       "Check-in denied: Face verification failed: Low confidence (0.4200)"
  /\ \E r \in attendance : CheckedIn(r) /\ r.image_captured_url # None

\* the time of day a start_time text stands for, HH:MM being HH:MM:00
StartDenotes(start_time) ==
  CASE start_time = <<"08", ":", "00">> -> <<8, 0, 0>>
    [] start_time = <<"08", ":", "00", ":", "00">> -> <<8, 0, 0>>
    [] start_time = <<"08", ":", "00", ":", "01">> -> <<8, 0, 1>>
    [] start_time = <<"06", ":", "00">> -> <<6, 0, 0>>

SecondsOfDay(tod) == (tod[1] * 60 + tod[2]) * 60 + tod[3]

\* the status the claim gives a check-in at instant for a start at start_time
StatusAt(instant, start_time) ==
  IF SecondsOfDay(instant.tod) > SecondsOfDay(StartDenotes(start_time))
  THEN "LATE" ELSE "PRESENT"

\* C3: a checked-in record of a schedule starting at T, checked in at the
\* instant I, is LATE when I is after T on I's day and PRESENT otherwise,
\* also when I is T (SpecResolve).
C3_LateIffAfterStart ==
  \A r \in attendance :
    (CheckedIn(r) /\ schedule[r.schedule_id] # None)
    => r.status = StatusAt(Val(r.check_in_time),
                           Val(schedule[r.schedule_id]).start_time)

\* a check-in at 08:00:00 of a schedule whose start_time is "08:00"
C3_Witness ==
  \E r \in attendance :
    /\ CheckedIn(r)
    /\ Val(r.check_in_time).tod = <<8, 0, 0>>
    /\ Val(schedule[r.schedule_id]).start_time = <<"08", ":", "00">>
    /\ r.status = "PRESENT"

\* whether the form value location_data holds a payload with content
NonEmptyPayload(location_data) ==
  Submitted(location_data).t = "dict" /\ Submitted(location_data).v # <<>>

\* the record a repeated check-in finishing with outcome o leaves, its
\* location_data being location
RepeatedCheckIn(o, location) ==
  LET nim == NimOf(req[1].user.id)
      result == verify_face(o, nim, DefaultConfidenceThreshold)
  IN  [Val(req[1].attendance) EXCEPT
         !.check_in_time = Some(clock),
         !.status = StatusAt(clock, Val(req[1].schedule).start_time),
         !.location_data = location,
         !.face_verification_data =
            process_json_field(
              face_verification_json(result, nim, DefaultConfidenceThreshold)),
         !.smile_detected = req[1].smile_detected,
         !.image_captured_url = Some(image_url(req[1].attendance_id))]

C10_VerifiedIffIdentityAndConfidence ==
  (call.fn = "verify_face" /\ call.done)
  => (call.result.verified
      <=> /\ call.outcome.kind = "prediction"
          /\ FirstPart(call.outcome.label, "_") = call.nim
          /\ call.outcome.confidence >= call.confidence_threshold)

\* the expected identity predicted with a confidence equal to the
\* threshold is verified
C10_Witness ==
  /\ call.fn = "verify_face"
  /\ call.done
  /\ call.outcome.kind = "prediction"
  /\ FirstPart(call.outcome.label, "_") = call.nim
  /\ call.outcome.confidence = call.confidence_threshold
  /\ call.result.verified

\* C11: when the image cannot be decoded, no face is detected, or the
\* detection or the inference raises, verify_face answers verified = FALSE
\* with confidence 0, and the student's check-in, like one whose service
\* raises, is answered as a failure and leaves the record as it was
\* (SpecRepeat).
C11_ErrorPathsFailClosed ==
  [][\A service_loads \in BOOLEAN, o \in PipelineOutcomes :
       LET result == verify_face(o, NimOf(req[1].user.id),
                                 DefaultConfidenceThreshold)
       IN  (/\ req[1].pc = "verifying"
            /\ CheckInFinish(1, service_loads, o)
            /\ (o.kind # "prediction" \/ ~service_loads))
           => /\ o.kind # "prediction"
                   => (~result.verified /\ result.confidence = 0)
              /\ attendance' = attendance
              /\ last'.op = "check_in"
              /\ last'.code # 200]_vars

\* a check-in with an image that cannot be decoded was denied and the
\* record is not checked in
C11_Witness ==
  /\ last.op = "check_in"
  /\ last.code = 403
  /\ last.detail = "Check-in denied: Invalid image data format"
  /\ \E r \in attendance : ~CheckedIn(r) /\ r.status = "ABSENT"

\* C12: a check-in of a record whose schedule row is missing is not turned
\* away, whoever is allowed to request it (the student of the record, an
\* admin, an instructor), and its save leaves the record PRESENT with a
\* check_in_time (Spec).
C12_CheckInWithoutScheduleIsPresent ==
  [][/\ \A u \in Users, id \in Ids, l \in LocationForms :
          (/\ schedule[Row(id).schedule_id] = None
           /\ u.type = "student" => u.id = Row(id).student_id
           /\ CheckInBegin(1, u, id, l, TRUE, Jpeg, TRUE))
          => req'[1].pc # "idle"
     /\ \A o \in PipelineOutcomes :
          (/\ req[1].pc # "idle"
           /\ req[1].schedule = None
           /\ CheckInFinish(1, TRUE, o)
           /\ req[1].pc = "verifying"
                => verify_face(o, NimOf(req[1].user.id),
                               DefaultConfidenceThreshold).verified)
          => /\ last'.code = 200
             /\ \A r \in attendance' :
                  r.attendance_id = req[1].attendance_id
                  => (r.status = "PRESENT" /\ CheckedIn(r))]_vars

\* a record as create leaves it: ABSENT, no check_in_time, no payloads, no
\* image reference
Fresh(r) ==
  /\ r.status = "ABSENT"
  /\ r.check_in_time = None
  /\ r.location_data = PyNone
  /\ r.face_verification_data = PyNone
  /\ r.image_captured_url = None

\* the rows a step inserts
Inserted == {r \in attendance' : r.attendance_id \notin Ids}

\* an accepted bulk create inserts, for each student, as many rows as the
\* list names the student
OnePerListedStudent ==
  (last'.op = "create_multiple" /\ last'.code = 200 /\ attendance' # attendance)
  => \A u \in Users, l \in StudentIdLists, sc \in ScheduleIds :
       CreateMultiple(u, l, sc)
       => \A s \in Students :
            Cardinality({r \in Inserted : r.student_id = s /\ r.schedule_id = sc})
              = Cardinality({k \in DOMAIN l : l[k] = s})

\* C13 as the spec states it: every record is, when it is inserted by
\* create, bulk create or direct check-in, ABSENT with no check_in_time, no
\* payloads and no image reference, and bulk create inserts one such
\* record per listed student (SpecCreate).
C13_CreatedRecordsAreFresh ==
  [][/\ \A r \in Inserted : Fresh(r)
     /\ OnePerListedStudent]_vars

\* C13, amended: every record inserted by create or bulk create is ABSENT
\* with no check_in_time, no payloads and no image reference, and bulk
\* create inserts one such record per listed student; a record inserted by
\* direct check-in has its check_in_time set and is PRESENT or LATE
\* (SpecCreate).
C13_CreatedFreshDirectCheckedIn ==
  [][/\ \A r \in Inserted :
          IF last'.op = "direct_check_in"
          THEN CheckedIn(r) /\ r.status \in {"PRESENT", "LATE"}
          ELSE Fresh(r)
     /\ OnePerListedStudent]_vars

\* a bulk create naming the same student twice has inserted two records
\* of the student, both as create leaves them
C13_Witness ==
  /\ last.op = "create_multiple"
  /\ last.code = 200
  /\ \E r1, r2 \in attendance :
       /\ r1.attendance_id = last.attendance_id
       /\ r2.attendance_id = last.attendance_id + 1
       /\ r1.student_id = r2.student_id
       /\ Fresh(r1) /\ Fresh(r2)

C15_StatusInDeclaredValues ==
  \A r \in attendance : r.status \in {"ABSENT", "ON_GOING", "PRESENT", "LATE"}

\* C16: in every state, after check-ins and updates with every form of
\* payload, the location_data and the face_verification_data of every
\* record are null or a JSON object (SpecPayload).
C16_PayloadsAreNullOrObject ==
  \A r \in attendance :
    /\ r.location_data.t \in {"none", "dict"}
    /\ r.face_verification_data.t \in {"none", "dict"}

\* the texts of the model that are a JSON document
JsonDocument(text) ==
  \/ text \in {<<"null">>, <<"1">>, <<"12345">>}
  \/ Len(text) = 2 /\ text[1] = "{" /\ text[2] = "}"

\* C17: process_json_field maps None to None, a dict to the same dict (so
\* a second application to the dict changes nothing), an int n to
\* {"data": str(n)} (12345 to {"data": "12345"}), and a str that is no JSON
\* to {"data": the str} ("not json" to {"data": "not json"})
\* (SpecNormalize).
C17_NormalizationOfPayloads ==
  (call.fn = "process_json_field" /\ call.times >= 1)
  => /\ call.data = PyNone => call.first = PyNone
     /\ call.data.t = "dict" => (call.first = call.data /\ call.result = call.data)
     /\ call.data.t = "int"
          => call.first = [t |-> "dict", v |-> <<"data", ToString(call.data.v)>>]
     /\ call.data = PyInt(12345)
          => call.first = [t |-> "dict", v |-> <<"data", "12345">>]
     /\ (call.data.t = "str" /\ ~JsonDocument(call.data.v))
          => call.first = [t |-> "dict", v |-> <<"data">> \o call.data.v]
     /\ call.data = PyStr(<<"not json">>)
          => call.first = [t |-> "dict", v |-> <<"data", "not json">>]

\* "not json" has become {"data": "not json"}, and a second application
\* has left that dict as it was
C17_Witness ==
  /\ call.fn = "process_json_field"
  /\ call.times = 2
  /\ call.data = PyStr(<<"not json">>)
  /\ call.first = PyDict(<<"data", "not json">>)
  /\ call.result = call.first

\* C18: a check-in whose record is not in the table when the check-in
\* comes to load and save it, also because another request deleted it
\* after the endpoint had found it, is answered 404, inserts no record and
\* stores no image (SpecRace).
C18_CheckInOfMissingRecordIsNotFound ==
  [][\A p \in Requests, o \in RaceOutcomes :
       (/\ req[p].pc = "verifying"
        /\ req[p].attendance_id \notin Ids
        /\ verify_face(o, NimOf(req[p].user.id),
                       DefaultConfidenceThreshold).verified
        /\ CheckInFinish(p, TRUE, o))
       => /\ last'.code = 404
          /\ attendance' = attendance
          /\ uploads' = uploads]_vars

\* the records of the student for the schedule dated the current date
RecordsOfToday(student_id, schedule_id) ==
  {r \in attendance :
     /\ r.student_id = student_id
     /\ r.schedule_id = schedule_id
     /\ r.date = get_indonesia_date}

\* C19: a direct check-in for a student and a schedule that does not exist
\* changes nothing and returns no record; one for which a record of the
\* current date exists checks that record in and leaves the number of
\* records as it was; any other inserts exactly one record, checked in and
\* PRESENT or LATE (SpecCreate).
C19_DirectCheckInUpserts ==
  [][\A s \in Students, sc \in ScheduleIds, l \in DirectLocations :
       DirectCheckIn(s, sc, l, PyNone, FALSE, None)
       => IF schedule[sc] = None
          THEN attendance' = attendance /\ last'.code # 200
          ELSE IF RecordsOfToday(s, sc) # {}
          THEN /\ Cardinality(attendance') = Cardinality(attendance)
               /\ Inserted = {}
               /\ \E r \in RecordsOfToday(s, sc), n \in attendance' :
                    /\ n.attendance_id = r.attendance_id
                    /\ CheckedIn(n)
                    /\ n.status \in {"PRESENT", "LATE"}
                    /\ attendance' \ {n} = attendance \ {r}
          ELSE /\ attendance \subseteq attendance'
               /\ Cardinality(Inserted) = 1
               /\ \A n \in Inserted :
                    /\ n.student_id = s
                    /\ n.schedule_id = sc
                    /\ CheckedIn(n)
                    /\ n.status \in {"PRESENT", "LATE"}]_vars

\* C20: the start a check-in is compared with is the schedule's
\* start_time on the schedule's schedule_date: a record checked in on a
\* later date is LATE whatever the time of day, one checked in on an
\* earlier date is PRESENT, and one checked in on schedule_date is LATE
\* exactly when the time of day is after start_time (SpecDated).
C20_StartIsOnScheduleDate ==
  \A r \in attendance :
    (CheckedIn(r) /\ schedule[r.schedule_id] # None)
    => LET sched == Val(schedule[r.schedule_id])
           check_in_time == Val(r.check_in_time)
       IN  r.status =
             IF check_in_time.date > sched.schedule_date THEN "LATE"
             ELSE IF check_in_time.date < sched.schedule_date THEN "PRESENT"
             ELSE StatusAt(check_in_time, sched.start_time)

\* C21 as the spec states it: no record is ever ON_GOING, whatever creates,
\* bulk creates, check-ins, direct check-ins and updates have run
\* (SpecLifecycle).
C21_NoRecordOnGoing ==
  \A r \in attendance : r.status # "ON_GOING"

\* C21, amended: no create, bulk create, check-in or direct check-in makes
\* a record ON_GOING; a record is ON_GOING after a step only when it was
\* before, or when the step is an accepted update of that record
\* (SpecLifecycle).
C21_OnlyUpdateAssignsOnGoing ==
  [][\A n \in attendance' :
       n.status = "ON_GOING"
       => \/ \E r \in attendance :
               r.attendance_id = n.attendance_id /\ r.status = "ON_GOING"
          \/ /\ last'.op = "update"
             /\ last'.code = 200
             /\ last'.attendance_id = n.attendance_id]_vars

\* an update has made a checked-in record ON_GOING
C21_Witness ==
  /\ last.op = "update"
  /\ last.code = 200
  /\ \E r \in attendance :
       /\ r.attendance_id = last.attendance_id
       /\ r.status = "ON_GOING"
       /\ CheckedIn(r)

\* C22: while a student's check-in awaits the verifier, the record is the
\* one the request loaded; the table and the stored images change only in
\* the step in which the verifier has answered verified = TRUE; and a
\* check-in dropped before the verifier answers changes neither
\* (SpecAbandon).
C22_NoWriteBeforeVerified ==
  [][/\ req[1].pc = "verifying"
          => Row(req[1].attendance_id) = Val(req[1].attendance)
     /\ (attendance' # attendance \/ uploads' # uploads)
          => \E o \in PipelineOutcomes :
               /\ req[1].pc = "verifying"
               /\ verify_face(o, NimOf(req[1].user.id),
                              DefaultConfidenceThreshold).verified
               /\ CheckInFinish(1, TRUE, o)
     /\ CheckInAbandon(1)
          => (attendance' = attendance /\ uploads' = uploads)]_vars

\* a check-in was dropped while it awaited the verifier: the record is not
\* checked in and no image is stored
C22_Witness ==
  /\ last.op = "check_in"
  /\ last.detail = "abandoned"
  /\ uploads = {}
  /\ \E r \in attendance : ~CheckedIn(r) /\ r.image_captured_url = None

\* C23: an accepted check-in leaves the updated_at of its record at the
\* time of the check-in (SpecRepeat).
C23_CheckInSetsUpdatedAt ==
  [][\A o \in PipelineOutcomes :
       (/\ req[1].pc = "verifying"
        /\ CheckInFinish(1, TRUE, o)
        /\ last'.code = 200)
       => \A n \in attendance' :
            n.attendance_id = req[1].attendance_id
            => n.updated_at = Some(clock)]_vars

(***************************************************************************)
(* SpecMalformed: the student of one record checks in against a schedule   *)
(* whose start_time column, a free string, may not be a time.              *)
(***************************************************************************)
MalformedStartTimes == { <<"08">>, <<"08", ":", "xx">> }

InitMalformed ==
  \E st \in MalformedStartTimes \cup {StartTime} :
    InitWith({NewAttendance(1, 1, 1, 1)}, st, [date |-> 1, tod |-> <<6, 0, 0>>])

NextMalformed ==
  \/ \E t \in Instants : Tick(t)
  \/ CheckInBegin(1, [type |-> "student", id |-> 1], 1, PyNone, TRUE, Jpeg, TRUE)
  \/ \E service_loads \in BOOLEAN, outcome \in PipelineOutcomes :
       CheckInFinish(1, service_loads, outcome)

SpecMalformed == InitMalformed /\ [][NextMalformed]_vars

\* C25: a check-in against a schedule whose start_time cannot be parsed
\* fails and changes neither the record nor the evidence store
\* (SpecMalformed).
C25_UnparsableStartTimeChangesNothing ==
  [][\A service_loads \in BOOLEAN, outcome \in PipelineOutcomes :
       (/\ req[1].pc = "verifying"
        /\ ~start_time_parses(schedule[1])
        /\ CheckInFinish(1, service_loads, outcome))
       => /\ last'.code # 200
          /\ attendance' = attendance
          /\ uploads' = uploads]_vars

(***************************************************************************)
(* SpecDirectRace: calls of student_direct_check_in, each in a thread and  *)
(* a session of its own, overlap on up to MaxRecords rows.                 *)
(***************************************************************************)
NextDirectRace ==
  \/ \E t \in Instants : Tick(t)
  \/ \E p \in Requests, s \in Students, sc \in ScheduleIds :
       /\ NextId + Cardinality({q \in Requests : req[q].pc = "direct"}) <= MaxRecords
       /\ DirectLookup(p, s, sc, PyNone, PyNone, FALSE, None)
  \/ \E p \in Requests : DirectWrite(p)

SpecDirectRace == Init /\ [][NextDirectRace]_vars

\* C24: no check-in, direct check-in or update changes the student_id or
\* the schedule_id of a record (SpecLifecycle).
C24_OwnerAndScheduleKept ==
  [][\A r \in attendance, n \in attendance' :
       r.attendance_id = n.attendance_id
       => (n.student_id = r.student_id /\ n.schedule_id = r.schedule_id)]_vars

\* an update whose body named student 2 and schedule 2 was accepted for a
\* record of student 1, which is still of student 1 and of schedule 1
C24_Witness ==
  /\ last.op = "update"
  /\ last.code = 200
  /\ \E r \in attendance :
       /\ r.attendance_id = last.attendance_id
       /\ r.student_id = 1
       /\ r.schedule_id = 1
       /\ r.status = "ABSENT"
       /\ CheckedIn(r)

\* the response is that to a face the verifier detected and rejected
RejectedFace(response) ==
  \E r \in PipelineOutcomes :
    LET result == verify_face(r, NimOf(1), DefaultConfidenceThreshold)
    IN  /\ r.kind = "prediction"
        /\ ~result.verified
        /\ response = [response EXCEPT
                          !.code = 403,
                          !.detail = "Check-in denied: " \o result.message]

\* C26: an image that cannot be decoded and a service that cannot be
\* loaded are reported with another outcome, the status of the response,
\* than a rejected face: after a rejection, a check-in failing for one of
\* the two is answered with another status than the rejection (SpecRepeat).
C26_FailureKindsAreDistinct ==
  [][\A service_loads \in BOOLEAN, outcome \in PipelineOutcomes :
       (/\ req[1].pc = "verifying"
        /\ RejectedFace(last)
        /\ ~service_loads \/ outcome.kind = "undecodable"
        /\ CheckInFinish(1, service_loads, outcome))
       => last'.code # last.code]_vars

\* C27: the today and the now of a direct check-in are those of the UTC+7
\* clock of create and check-in: a direct check-in that succeeds for a key
\* with a record of the current UTC+7 date updates such a record, and the
\* record it returns is dated and checked in by that clock (SpecCreate).
C27_DirectCheckInUsesIndonesiaClock ==
  [][\A s \in Students, sc \in ScheduleIds, l \in DirectLocations :
       (DirectCheckIn(s, sc, l, PyNone, FALSE, None) /\ last'.code = 200)
       => /\ RecordsOfToday(s, sc) # {}
             => /\ last'.detail = "updated"
                /\ \E r \in RecordsOfToday(s, sc) :
                     r.attendance_id = last'.attendance_id
          /\ \E n \in attendance' :
               /\ n.attendance_id = last'.attendance_id
               /\ n.date = get_indonesia_date
               /\ n.check_in_time = Some(get_indonesia_time)]_vars

\* C28: when the check-in of a student invokes the verifier, the NIM it is
\* to expect is that of the student of the record with the request's
\* attendance_id (SpecRace).
C28_ExpectedNimIsRecordOwners ==
  [][\A p \in Requests, o \in RaceOutcomes :
       (/\ req[p].pc = "verifying"
        /\ req[p].user.type = "student"
        /\ CheckInFinish(p, TRUE, o))
       => \A r \in attendance :
            r.attendance_id = req[p].attendance_id
            => NimOf(req[p].user.id) = NimOf(r.student_id)]_vars

\* the instructor is assigned to the course of the schedule
Teaches(instructor_id, schedule_id) ==
  /\ schedule[schedule_id] # None
  /\ \E k \in 1 .. Len(instructor_course) :
       instructor_course[k] =
         [instructor_id |-> instructor_id,
          course_id |-> Val(schedule[schedule_id]).course_id]

\* what C29 asks of the response to a create by the user for the schedule
CreateAnswersByRole(u, sc) ==
  /\ u.type = "admin" => last'.code = 200
  /\ u.type = "instructor" => (last'.code = 200 <=> Teaches(u.id, sc))
  /\ last'.code # 200 => attendance' = attendance

\* C29: a create or a bulk create of an admin succeeds; that of an
\* instructor succeeds exactly when the instructor is assigned to the
\* course of the schedule; a rejected request creates no record
\* (SpecCreate).
C29_CreateIsAuthorisedByCourse ==
  [][/\ \A u \in Users, s \in Students, sc \in ScheduleIds :
          (last'.op = "create" /\ CreateAttendance(u, s, sc))
          => CreateAnswersByRole(u, sc)
     /\ \A u \in Users, l \in StudentIdLists \ {<<>>}, sc \in ScheduleIds :
          (last'.op = "create_multiple" /\ CreateMultiple(u, l, sc))
          => CreateAnswersByRole(u, sc)]_vars

\* C30: direct check-ins that run concurrently for a student and a schedule
\* leave one record for the key and the day: no two records of the table
\* are of one student, one schedule and one date (SpecDirectRace).
C30_OneRecordPerKey ==
  \A r1 \in attendance, r2 \in attendance :
    (/\ r1.student_id = r2.student_id
     /\ r1.schedule_id = r2.schedule_id
     /\ r1.date = r2.date)
    => r1 = r2

====
